---- MODULE Spec2Model ----
(***************************************************************************)
(* A model of the zero-knowledge GPA verification protocol:                *)
(*   CredentialDatabase (score registry), CryptoUtils (canonical signer),  *)
(*   CredentialIssuer, CredentialHolder, ZKPUtils (backend wrappers) and   *)
(*   ProofVerifier.                                                        *)
(*                                                                         *)
(* Conventions.                                                            *)
(*  - A Python dict is a TLA+ function whose DOMAIN is the set of keys     *)
(*    present; d.get(k) is Get(d, k), which yields <<>> for None and       *)
(*    <<v>> for a value v.                                                 *)
(*  - A domain float (score, threshold) is written in hundredths: 350      *)
(*    stands for 3.5, 229 for 2.29.  int(x * f) is computed as Python      *)
(*    computes it on IEEE-754 doubles (see ScaleToInt).                    *)
(*  - An RSA key pair is named by the issuer whose key directory holds it; *)
(*    a signature is the pair (signing key, signed bytes).                 *)
(*  - A uuid4 is the next value of a counter.                              *)
(***************************************************************************)
EXTENDS Integers, Sequences, FiniteSets, TLC

VARIABLES
    db,               \* CredentialDatabase._db["students"], as saved at db_path
    refs,             \* the dict object that is each student's "scores" in _db
    instances,        \* students and refs of each further CredentialDatabase on db_path
    nextId,           \* source of fresh uuid4 values
    issued,           \* every bundle issue_credential has returned
    credentials,      \* CredentialHolder._credentials
    credFiles,        \* credentials/<credential_id>.json
    proofs,           \* proofs/<credential_id>/full_proof.json
    proofLog,         \* every successful generate_proof call with its result
    trusted_issuers,  \* ProofVerifier.trusted_issuers
    snarkjs,          \* whether the snarkjs executable is installed
    now,              \* the system clock, in seconds
    ret               \* the last call: operation, arguments, outcome

vars == <<db, refs, instances, nextId, issued, credentials, credFiles, proofs,
          proofLog, trusted_issuers, snarkjs, now, ret>>

----------------------------------------------------------------------------
(* Bounds and input domains *)

MaxIssued == 2
MaxProofs == 2
MaxClock == 5

Students == {"s1"}
ScoreTypes == {"gpa", "sat"}
IssuerNames == {"SchoolA", "SchoolB"}
Values == {325, 350}
Thresholds == {300, 350}
Scales == {10, 100}
HolderId == "s1"

None == <<>>
Some(v) == <<v>>
Get(d, k) == IF k \in DOMAIN d THEN Some(d[k]) ELSE None
GetOr(d, k, dflt) == IF k \in DOMAIN d THEN d[k] ELSE dflt
EmptyDict == [k \in {} |-> 0]
Put(d, k, v) == [x \in DOMAIN d \cup {k} |-> IF x = k THEN v ELSE d[x]]
Update(d, e) == [x \in DOMAIN d \cup DOMAIN e |-> IF x \in DOMAIN e THEN e[x] ELSE d[x]]
Remove(d, k) == [x \in DOMAIN d \ {k} |-> d[x]]

----------------------------------------------------------------------------
(* CryptoUtils: canonical serialization, sign, verify *)

\* The field names of a credential in ascending (ASCII) order, the order
\* json.dumps(sort_keys=True) writes them in.
SortedKeys == <<"credential_id", "issued_at", "issued_to", "issuer",
                "score_type", "score_value">>

\* The order issue_credential inserts the fields in.
InsertionKeys == <<"credential_id", "issuer", "issued_to", "score_type",
                   "score_value", "issued_at">>

RECURSIVE DumpIn(_, _)
DumpIn(order, data) ==
    IF order = <<>> THEN <<>>
    ELSE IF Head(order) \in DOMAIN data
         THEN <<<<Head(order), data[Head(order)]>>>> \o DumpIn(Tail(order), data)
         ELSE DumpIn(Tail(order), data)

\* json.dumps(data, sort_keys=True).encode()
CanonicalBytes(data) == DumpIn(SortedKeys, data)

\* json.dumps(data).encode(): keys in insertion order.
UnsortedBytes(data) == DumpIn(InsertionKeys, data)

B64Encode(sig) == [b64 |-> sig]

\* base64.b64decode: a string with broken padding raises binascii.Error;
\* characters outside the alphabet are discarded, leaving no bytes.
B64Decode(s) ==
    IF "b64" \in DOMAIN s THEN [ok |-> TRUE, bytes |-> Some(s.b64)]
    ELSE IF s.text = "badpad" THEN [ok |-> FALSE, bytes |-> None]
    ELSE [ok |-> TRUE, bytes |-> None]

PrivateKey(issuer) == issuer
PublicKey(issuer) == issuer

RsaSign(private_key, data_bytes) == [key |-> private_key, msg |-> data_bytes]

\* public_key.verify: raises InvalidSignature unless the bytes are a
\* signature made over data_bytes with the matching private key.
RsaVerify(public_key, signature_bytes, data_bytes) ==
    /\ signature_bytes # None
    /\ signature_bytes[1].key = public_key
    /\ signature_bytes[1].msg = data_bytes

sign_data_unsorted(private_key, data) ==
    B64Encode(RsaSign(private_key, UnsortedBytes(data)))

sign_data(private_key, data) ==
    B64Encode(RsaSign(private_key, CanonicalBytes(data)))

verify_signature_any_key(public_key, data, signature) ==
    LET dec == B64Decode(signature) IN
    IF ~dec.ok THEN "Raises"
    ELSE IF dec.bytes # None /\ dec.bytes[1].msg = CanonicalBytes(data)
         THEN "True" ELSE "False"

verify_signature_key_only(public_key, data, signature) ==
    LET dec == B64Decode(signature) IN
    IF ~dec.ok THEN "Raises"
    ELSE IF dec.bytes # None /\ dec.bytes[1].key = public_key
         THEN "True" ELSE "False"

\* "True" / "False" are the returned booleans, "Raises" an escaping exception.
verify_signature(public_key, data, signature) ==
    LET data_bytes == CanonicalBytes(data)
        dec == B64Decode(signature)
    IN  IF ~dec.ok THEN "Raises"
        ELSE IF RsaVerify(public_key, dec.bytes, data_bytes)
             THEN "True" ELSE "False"

----------------------------------------------------------------------------
(* CredentialDatabase: pure readers and writers of _db["students"] *)

ScoreMaps == UNION {[ts -> Values] : ts \in SUBSET ScoreTypes}
Registries == UNION {[ss -> ScoreMaps] : ss \in SUBSET Students}

has_student(students, student_id) == student_id \in DOMAIN students

get_student_scores(students, student_id) ==
    IF student_id \notin DOMAIN students THEN None
    ELSE Some(students[student_id])

\* A Python dict is an object: add_student keeps the dict it is handed
\* ({"scores": scores}), and update_student_scores changes that object in
\* place, for every holder of it.  An object is named by a pair: the caller's
\* dicts, and the dicts json.load makes when an instance reads the file.
CallerObjects == {<<"caller", "d1">>, <<"caller", "d2">>}
LoadedObject(instance, student_id) == <<instance, student_id>>

\* _load: every student's scores is an object of its own.
LoadedRefs(instance, students) ==
    [x \in DOMAIN students |-> LoadedObject(instance, x)]

\* The caller holds the dict d with the value scores: a dict the registry
\* holds too has the value the registry shows.
CanPass(students, objects, scores, d) ==
    \A x \in DOMAIN objects : objects[x] = d => students[x] = scores

\* The registry after the dict d has been given the value scores.
Mutated(students, objects, d, scores) ==
    [x \in DOMAIN students |-> IF objects[x] = d THEN scores ELSE students[x]]

\* Each writer yields the returned boolean with the registry and its dict
\* objects afterwards; d is the dict object passed as scores.
add_student(students, objects, student_id, scores, d) ==
    IF student_id \in DOMAIN students
    THEN [out |-> FALSE, students |-> students, refs |-> objects]
    ELSE [out |-> TRUE, students |-> Put(students, student_id, scores),
          refs |-> Put(objects, student_id, d)]

update_student_scores_replacing(students, objects, student_id, scores) ==
    IF student_id \notin DOMAIN students
    THEN [out |-> FALSE, students |-> students, refs |-> objects]
    ELSE [out |-> TRUE,
          students |-> Mutated(students, objects, objects[student_id], scores),
          refs |-> objects]

\* current_scores.update(scores) on the student's dict object.
update_student_scores(students, objects, student_id, scores) ==
    IF student_id \notin DOMAIN students
    THEN [out |-> FALSE, students |-> students, refs |-> objects]
    ELSE [out |-> TRUE,
          students |-> Mutated(students, objects, objects[student_id],
                               Update(students[student_id], scores)),
          refs |-> objects]

delete_student(students, objects, student_id) ==
    IF student_id \notin DOMAIN students
    THEN [out |-> FALSE, students |-> students, refs |-> objects]
    ELSE [out |-> TRUE, students |-> Remove(students, student_id),
          refs |-> Remove(objects, student_id)]

----------------------------------------------------------------------------
(* CredentialIssuer *)

\* int(os.path.getmtime(self.public_key_path)): the time the issuer's key
\* file was written, fixed once the key pair exists.
KeyFileMtime(name) == IF name = "SchoolA" THEN 1 ELSE 2

\* The clock when the last key file has been written.
KeysWritten == 2

issue_credential_id_from_subject(name, students, uuid, student_id, score_type) ==
    LET scores == get_student_scores(students, student_id) IN
    IF scores = None \/ scores[1] = EmptyDict THEN None
    ELSE IF score_type \notin DOMAIN scores[1] THEN None
    ELSE LET credential_data ==
                 [credential_id |-> IF student_id = "s1" THEN 1 ELSE 2,
                  issuer |-> name,
                  issued_to |-> student_id,
                  score_type |-> score_type,
                  score_value |-> scores[1][score_type],
                  issued_at |-> KeyFileMtime(name)]
             signature == sign_data(PrivateKey(name), credential_data)
         IN  Some([credential |-> credential_data, signature |-> signature])

issue_credential_default_score(name, students, uuid, student_id, score_type) ==
    LET scores == get_student_scores(students, student_id) IN
    IF scores = None \/ scores[1] = EmptyDict THEN None
    ELSE LET credential_data ==
                 [credential_id |-> uuid,
                  issuer |-> name,
                  issued_to |-> student_id,
                  score_type |-> score_type,
                  score_value |-> GetOr(scores[1], score_type, 0),
                  issued_at |-> KeyFileMtime(name)]
             signature == sign_data(PrivateKey(name), credential_data)
         IN  Some([credential |-> credential_data, signature |-> signature])

\* None, or Some of the signed bundle {"credential": ..., "signature": ...}.
issue_credential(name, students, uuid, student_id, score_type) ==
    LET scores == get_student_scores(students, student_id) IN
    IF scores = None \/ scores[1] = EmptyDict THEN None
    ELSE IF score_type \notin DOMAIN scores[1] THEN None
    ELSE LET credential_data ==
                 [credential_id |-> uuid,
                  issuer |-> name,
                  issued_to |-> student_id,
                  score_type |-> score_type,
                  score_value |-> scores[1][score_type],
                  issued_at |-> KeyFileMtime(name)]
             signature == sign_data(PrivateKey(name), credential_data)
         IN  Some([credential |-> credential_data, signature |-> signature])

verify_credential_against_registry(name, credential, signature) ==
    IF /\ {"issued_to", "score_type", "score_value"} \subseteq DOMAIN credential
       /\ credential.issued_to \in DOMAIN db
       /\ Get(db[credential.issued_to], credential.score_type)
              = Some(credential.score_value)
    THEN verify_signature(PublicKey(name), credential, signature)
    ELSE "False"

verify_credential(name, credential, signature) ==
    verify_signature(PublicKey(name), credential, signature)

----------------------------------------------------------------------------
(* ZKPUtils: the backend wrappers, and the circuit they are run on *)

check_dependencies(installed) == [snarkjs |-> installed]

Stages == <<"compile", "setup", "witness", "prove">>

\* threshold_check.circom: the witness exists only if score >= threshold;
\* threshold is the circuit's one public signal.
CircuitSatisfied(input_data) == input_data.score >= input_data.threshold
PublicSignals(input_data) == <<input_data.threshold>>

\* A stage raises when the toolchain fails there (fault names the stage) or,
\* for the witness, when the inputs do not satisfy the circuit.
StageRaises(stage, fault, input_data) ==
    \/ fault = stage
    \/ stage = "witness" /\ ~CircuitSatisfied(input_data)

\* generate_proof's result carries, besides the returned value, whether an
\* exception left the method, the backend stages it called, and the
\* input_data it handed to generate_witness (None when that stage was not
\* reached).

\* compile_circuit, setup_circuit, generate_witness, generate_proof in the
\* order generate_proof calls them: the stages invoked (the last one raised
\* unless all four ran), and the files proof.json / public.json on success.
RunPipeline(fault, input_data) ==
    LET bad == {i \in 1..Len(Stages) : StageRaises(Stages[i], fault, input_data)}
        first == IF bad = {} THEN 0 ELSE CHOOSE i \in bad : \A j \in bad : i <= j
    IN  IF first = 0
        THEN [ok |-> TRUE, calls |-> Stages,
              proof |-> [pi |-> "groth16", public |-> PublicSignals(input_data)],
              public |-> PublicSignals(input_data)]
        ELSE [ok |-> FALSE, calls |-> SubSeq(Stages, 1, first)]

simplify_proof(proof, public) == [proof |-> proof, public |-> public]

\* snarkjs groth16 verify: "OK" only for a proof produced by prove under the
\* circuit's setup for exactly these public signals; any other run exits
\* non-zero, which verify_proof turns into False.
zkp_verify_proof(verification_key_path, proof, public) ==
    /\ verification_key_path = "verification_key.json"
    /\ "pi" \in DOMAIN proof
    /\ proof.pi = "groth16"
    /\ proof.public = public

----------------------------------------------------------------------------
(* CredentialHolder *)

\* The hundredths h, up to 4.00 in magnitude, for which Python's double
\* product (h/100) * 100 lies one unit in the last place short of the
\* integer h, so that int() yields one less in magnitude:
\* 2.3 * 100 = 229.99999999999997.  For the scale factors 1 and 10 the
\* product of every such value has the exact integer part.
FloatShortfall == {29, 57, 58, 113, 114, 115, 116, 201, 203, 205, 207,
                   226, 228, 230, 232, 251, 253, 255}

\* int(x * scale_factor) for x = v/100: the double product, truncated
\* toward zero.
ScaleToInt(v, scale_factor) ==
    LET a == IF v >= 0 THEN v ELSE -v
        q == (a * scale_factor) \div 100
        m == IF scale_factor = 100 /\ a \in FloatShortfall THEN q - 1 ELSE q
    IN  IF v >= 0 THEN m ELSE -m

\* Python truth of a credential_id: None, "" and 0 are false.  Ids are
\* numbers here, 0 standing for the false ones.
Truthy(credential_id) == credential_id # 0

\* _load_credentials on a new holder: every credential file whose content
\* has a true credential.credential_id is entered under that id.
load_credentials(files) ==
    LET loaded == {f \in DOMAIN files :
                     /\ "credential" \in DOMAIN files[f]
                     /\ "credential_id" \in DOMAIN files[f].credential
                     /\ Truthy(files[f].credential.credential_id)}
    IN  [id \in {files[f].credential.credential_id : f \in loaded} |->
            files[CHOOSE f \in loaded : files[f].credential.credential_id = id]]

\* What `with open(path, 'w') as f: json.dump(data, f)` does to the file:
\* "ok" writes it; "open" fails in open() and leaves the file as it was;
\* "write" fails after open() has truncated the file, which then holds no
\* JSON document.  Both failures raise OSError (IOError).
IoOutcomes == {"ok", "open", "write"}

\* The files after the dump of data to the file named k.  A file of a files
\* map is a JSON document; a truncated file has none and no entry.
Dump(files, k, data, io) ==
    IF io = "ok" THEN Put(files, k, data)
    ELSE IF io = "write" THEN Remove(files, k)
    ELSE files

store_credential_signature_unchecked(creds, files, credential_data, io) ==
    IF \/ "credential" \notin DOMAIN credential_data
       \/ "credential_id" \notin DOMAIN credential_data.credential
    THEN [out |-> FALSE, credentials |-> creds, files |-> files]
    ELSE LET credential_id == credential_data.credential.credential_id IN
         IF io # "ok"
         THEN [out |-> FALSE, credentials |-> creds,
               files |-> Dump(files, credential_id, credential_data, io)]
         ELSE [out |-> TRUE,
               credentials |-> Put(creds, credential_id, credential_data),
               files |-> Dump(files, credential_id, credential_data, io)]

\* The returned boolean with the in-memory map and the files afterwards; io
\* is the outcome of writing the credential file.
store_credential(creds, files, credential_data, io) ==
    IF \/ "credential" \notin DOMAIN credential_data
       \/ "signature" \notin DOMAIN credential_data
       \/ "credential_id" \notin DOMAIN credential_data.credential
    THEN [out |-> FALSE, credentials |-> creds, files |-> files]
    ELSE LET credential_id == credential_data.credential.credential_id IN
         IF io # "ok"
         THEN [out |-> FALSE, credentials |-> creds,
               files |-> Dump(files, credential_id, credential_data, io)]
         ELSE [out |-> TRUE,
               credentials |-> Put(creds, credential_id, credential_data),
               files |-> Dump(files, credential_id, credential_data, io)]

get_credential(creds, credential_id) == Get(creds, credential_id)

list_credentials(creds) == {creds[k] : k \in DOMAIN creds}

MetadataScaledThreshold(credential_id, credential, threshold, student_id, scale_factor) ==
    [credential_id |-> credential_id,
     credential_issuer |-> credential.issuer,
     score_type |-> credential.score_type,
     threshold |-> ScaleToInt(threshold, scale_factor),
     student_id |-> student_id,
     scale_factor |-> scale_factor]

MetadataLeakingScore(credential_id, credential, threshold, student_id, scale_factor) ==
    [credential_id |-> credential_id,
     credential_issuer |-> credential.issuer,
     score_type |-> credential.score_type,
     threshold |-> credential.score_value,
     student_id |-> student_id,
     scale_factor |-> scale_factor]

Metadata(credential_id, credential, threshold, student_id, scale_factor) ==
    [credential_id |-> credential_id,
     credential_issuer |-> credential.issuer,
     score_type |-> credential.score_type,
     threshold |-> threshold,
     student_id |-> student_id,
     scale_factor |-> scale_factor]

\* The outcome of saving full_proof.json under a fault: the faults "open"
\* and "write" are those of the save, every other fault leaves it working.
SaveOutcome(fault) == IF fault \in IoOutcomes THEN fault ELSE "ok"

\* out is None or Some(bundle); raised says an exception left the method;
\* calls lists the backend stages invoked; io is what the call did to
\* full_proof.json ("open" also when the save was not reached: the file is
\* as it was).
generate_proof_fallback_credential(student_id, creds, installed, fault, credential_id, threshold, scale_factor) ==
    LET credential_data ==
            IF credential_id \in DOMAIN creds \/ DOMAIN creds = {}
            THEN get_credential(creds, credential_id)
            ELSE Some(creds[CHOOSE k \in DOMAIN creds : TRUE])
        failure(calls, passed) == [out |-> None, raised |-> FALSE, calls |-> calls,
                                   input_data |-> passed, io |-> "open"]
    IN
    IF credential_data = None \/ credential_data[1] = EmptyDict THEN failure(<<>>, None)
    ELSE LET credential == credential_data[1].credential IN
    IF "score_value" \notin DOMAIN credential
    THEN [out |-> None, raised |-> TRUE, calls |-> <<>>, input_data |-> None,
          io |-> "open"]
    ELSE LET input_data ==
                 [score |-> ScaleToInt(credential.score_value, scale_factor),
                  threshold |-> ScaleToInt(threshold, scale_factor)]
             run == RunPipeline(fault, input_data)
             passed == IF Len(run.calls) >= 3 THEN Some(input_data) ELSE None
         IN
    IF ~check_dependencies(installed).snarkjs THEN failure(<<>>, None)
    ELSE IF ~run.ok THEN failure(run.calls, passed)
    ELSE IF {"issuer", "score_type"} \ DOMAIN credential # {} THEN failure(run.calls, passed)
    ELSE IF SaveOutcome(fault) # "ok"
    THEN [out |-> None, raised |-> FALSE, calls |-> run.calls, input_data |-> passed,
          io |-> SaveOutcome(fault)]
    ELSE [out |-> Some([proof |-> simplify_proof(run.proof, run.public).proof,
                        public |-> simplify_proof(run.proof, run.public).public,
                        metadata |-> Metadata(credential_id, credential, threshold,
                                              student_id, scale_factor)]),
          raised |-> FALSE,
          calls |-> run.calls,
          input_data |-> passed,
          io |-> "ok"]

generate_proof(student_id, creds, installed, fault, credential_id, threshold, scale_factor) ==
    LET credential_data == get_credential(creds, credential_id)
        failure(calls, passed) == [out |-> None, raised |-> FALSE, calls |-> calls,
                                   input_data |-> passed, io |-> "open"]
    IN
    IF credential_data = None \/ credential_data[1] = EmptyDict THEN failure(<<>>, None)
    ELSE LET credential == credential_data[1].credential IN
    IF "score_value" \notin DOMAIN credential
    THEN [out |-> None, raised |-> TRUE, calls |-> <<>>, input_data |-> None,
          io |-> "open"]
    ELSE LET input_data ==
                 [score |-> ScaleToInt(credential.score_value, scale_factor),
                  threshold |-> ScaleToInt(threshold, scale_factor)]
             run == RunPipeline(fault, input_data)
             passed == IF Len(run.calls) >= 3 THEN Some(input_data) ELSE None
         IN
    IF ~check_dependencies(installed).snarkjs THEN failure(<<>>, None)
    ELSE IF ~run.ok THEN failure(run.calls, passed)
    ELSE IF {"issuer", "score_type"} \ DOMAIN credential # {} THEN failure(run.calls, passed)
    ELSE IF SaveOutcome(fault) # "ok"
    THEN [out |-> None, raised |-> FALSE, calls |-> run.calls, input_data |-> passed,
          io |-> SaveOutcome(fault)]
    ELSE [out |-> Some([proof |-> simplify_proof(run.proof, run.public).proof,
                        public |-> simplify_proof(run.proof, run.public).public,
                        metadata |-> Metadata(credential_id, credential, threshold,
                                              student_id, scale_factor)]),
          raised |-> FALSE,
          calls |-> run.calls,
          input_data |-> passed,
          io |-> "ok"]

----------------------------------------------------------------------------
(* ProofVerifier *)

DefaultScaleFactor == 100

PublicKeyPath(name) ==
    IF name = "SchoolA" THEN "keys/SchoolA/public_key.pem"
    ELSE "keys/SchoolB/public_key.pem"

\* CryptoUtils.load_public_key: None stands for the exception raised when
\* the file is missing or holds no key.
load_public_key(path) ==
    IF \E n \in IssuerNames : path = PublicKeyPath(n)
    THEN Some(PublicKey(CHOOSE n \in IssuerNames : path = PublicKeyPath(n)))
    ELSE None

add_trusted_issuer_keep_first(trusted, issuer_name, public_key_path) ==
    LET public_key == load_public_key(public_key_path) IN
    IF public_key = None
    THEN [out |-> FALSE, trusted |-> trusted]
    ELSE [out |-> TRUE,
          trusted |-> IF issuer_name \in DOMAIN trusted THEN trusted
                      ELSE Put(trusted, issuer_name, public_key[1])]

add_trusted_issuer(trusted, issuer_name, public_key_path) ==
    LET public_key == load_public_key(public_key_path) IN
    IF public_key = None
    THEN [out |-> FALSE, trusted |-> trusted]
    ELSE [out |-> TRUE, trusted |-> Put(trusted, issuer_name, public_key[1])]

Invalid(error) == [valid |-> FALSE, error |-> error]

MissingDependency == [kind |-> "MissingDependency"]

ThresholdMismatch(proof_threshold, threshold) ==
    [kind |-> "ThresholdMismatch",
     proof_threshold |-> proof_threshold, threshold |-> threshold]

\* One call of ZKPUtils.verify_proof as the verifier sees it: the arguments
\* and "True" / "False" for the returned boolean, "Raised" when the snarkjs
\* call raises something other than CalledProcessError (backend_fault).
BackendCall(backend_fault, verification_key_path, proof, public) ==
    [verification_key_path |-> verification_key_path,
     proof |-> proof,
     public |-> public,
     returned |-> IF backend_fault THEN "Raised"
                  ELSE IF zkp_verify_proof(verification_key_path, proof, public)
                       THEN "True" ELSE "False"]

verify_backend_ignoring_verdict(backend_fault, proof_data, metadata, verification_key_path, threshold) ==
    IF "proof" \notin DOMAIN proof_data \/ "public" \notin DOMAIN proof_data
    THEN [raised |-> TRUE, calls |-> <<>>]
    ELSE LET call == BackendCall(backend_fault, verification_key_path,
                                 proof_data.proof, proof_data.public)
         IN  IF call.returned = "Raised"
             THEN [raised |-> FALSE, calls |-> <<call>>,
                   result |-> Invalid([kind |-> "ErrorVerifyingProof"])]
             ELSE [raised |-> FALSE, calls |-> <<call>>,
                   result |-> [valid |-> TRUE,
                               metadata |-> metadata,
                               message |-> [score_type |-> GetOr(metadata, "score_type", "score"),
                                            threshold |-> threshold]]]

\* verify_proof from the temporary files on: the proof and public inputs are
\* read from the bundle (KeyError escapes), the backend is called once, and
\* its verdict decides the result.
verify_backend(backend_fault, proof_data, metadata, verification_key_path, threshold) ==
    IF "proof" \notin DOMAIN proof_data \/ "public" \notin DOMAIN proof_data
    THEN [raised |-> TRUE, calls |-> <<>>]
    ELSE LET call == BackendCall(backend_fault, verification_key_path,
                                 proof_data.proof, proof_data.public)
         IN  IF call.returned = "Raised"
             THEN [raised |-> FALSE, calls |-> <<call>>,
                   result |-> Invalid([kind |-> "ErrorVerifyingProof"])]
             ELSE IF call.returned = "False"
             THEN [raised |-> FALSE, calls |-> <<call>>,
                   result |-> Invalid([kind |-> "InvalidProof"])]
             ELSE [raised |-> FALSE, calls |-> <<call>>,
                   result |-> [valid |-> TRUE,
                               metadata |-> metadata,
                               message |-> [score_type |-> GetOr(metadata, "score_type", "score"),
                                            threshold |-> threshold]]]

verify_proof_no_threshold_check(installed, backend_fault, proof_data, verification_key_path, threshold) ==
    LET metadata == GetOr(proof_data, "metadata", EmptyDict)
        proof_threshold == Get(metadata, "threshold")
    IN
    IF ~check_dependencies(installed).snarkjs
    THEN [raised |-> FALSE, calls |-> <<>>, result |-> Invalid(MissingDependency)]
    ELSE verify_backend(backend_fault, proof_data, metadata, verification_key_path,
                        IF threshold = None THEN proof_threshold ELSE threshold)

\* The result dictionary (raised: an exception left the method instead),
\* with the calls made to ZKPUtils.verify_proof.  threshold is None or
\* Some(expected threshold).
verify_proof(installed, backend_fault, proof_data, verification_key_path, threshold) ==
    LET metadata == GetOr(proof_data, "metadata", EmptyDict)
        proof_threshold == Get(metadata, "threshold")
        scale_factor == GetOr(metadata, "scale_factor", DefaultScaleFactor)
    IN
    IF ~check_dependencies(installed).snarkjs
    THEN [raised |-> FALSE, calls |-> <<>>, result |-> Invalid(MissingDependency)]
    ELSE IF threshold # None /\ threshold # proof_threshold
    THEN [raised |-> FALSE, calls |-> <<>>,
          result |-> Invalid(ThresholdMismatch(proof_threshold, threshold))]
    ELSE verify_backend(backend_fault, proof_data, metadata, verification_key_path,
                        IF threshold = None THEN proof_threshold ELSE threshold)

verify_with_issuer_trusted_only(proof_data, issuer_name) ==
    LET metadata == GetOr(proof_data, "metadata", EmptyDict)
        credential_id == Get(metadata, "credential_id")
        issuer_in_proof == Get(metadata, "credential_issuer")
    IN  IF Some(issuer_name) # issuer_in_proof \/ issuer_name \notin DOMAIN trusted_issuers
        THEN Invalid([kind |-> "IssuerMismatch",
                      proof_issuer |-> issuer_in_proof, issuer |-> issuer_name])
        ELSE [valid |-> TRUE,
              message |-> [credential_id |-> credential_id,
                           issuer |-> issuer_in_proof]]

verify_with_issuer(proof_data, issuer_name) ==
    LET metadata == GetOr(proof_data, "metadata", EmptyDict)
        credential_id == Get(metadata, "credential_id")
        issuer_in_proof == Get(metadata, "credential_issuer")
    IN  IF Some(issuer_name) # issuer_in_proof
        THEN Invalid([kind |-> "IssuerMismatch",
                      proof_issuer |-> issuer_in_proof, issuer |-> issuer_name])
        ELSE [valid |-> TRUE,
              message |-> [credential_id |-> credential_id,
                           issuer |-> issuer_in_proof]]

----------------------------------------------------------------------------
(* What a caller can hand to an operation that takes a credential *)

MalformedSignatures == {[text |-> "badpad"], [text |-> "junk"]}

FieldValues(f) ==
    CASE f = "credential_id" -> 1..MaxIssued
      [] f = "issuer" -> IssuerNames
      [] f = "issued_to" -> Students \cup {"s2"}
      [] f = "score_type" -> ScoreTypes
      [] f = "score_value" -> Values
      [] f = "issued_at" -> {1, 2}

CredentialFields == {SortedKeys[i] : i \in 1..Len(SortedKeys)}

\* The records some issuer has signed, and those records with one field changed.
IssuedRecords == {b.credential : b \in issued}
TamperedRecords ==
    ({[c EXCEPT ![f] = v] : c \in IssuedRecords, <<f, v>> \in
        UNION {{<<g, w>> : w \in FieldValues(g)} : g \in CredentialFields}}
     \cup {Remove(c, f) : c \in IssuedRecords, f \in CredentialFields})
      \ IssuedRecords
KnownSignatures == {b.signature : b \in issued} \cup MalformedSignatures

----------------------------------------------------------------------------
(* Actions: issuer *)

IssueCredential(name, student_id, score_type) ==
    /\ nextId <= MaxIssued
    /\ LET r == issue_credential(name, db, nextId, student_id, score_type) IN
       /\ ret' = [op |-> "issue_credential", name |-> name,
                  student_id |-> student_id, score_type |-> score_type,
                  out |-> r]
       /\ IF r = None
          THEN UNCHANGED <<nextId, issued>>
          ELSE /\ nextId' = nextId + 1
               /\ issued' = issued \cup {r[1]}
    /\ UNCHANGED <<refs, now, instances, db, credentials, credFiles, proofs, proofLog,
                   trusted_issuers, snarkjs>>

VerifyCredential(name, credential, signature) ==
    /\ ret' = [op |-> "verify_credential", name |-> name,
               credential |-> credential, signature |-> signature,
               out |-> verify_credential(name, credential, signature)]
    /\ UNCHANGED <<refs, now, instances, db, nextId, issued, credentials, credFiles, proofs,
                   proofLog, trusted_issuers, snarkjs>>

\* Time passes between two calls.
Tick ==
    /\ now < MaxClock
    /\ now' = now + 1
    /\ UNCHANGED <<refs, db, instances, nextId, issued, credentials, credFiles,
                   proofs, proofLog, trusted_issuers, snarkjs, ret>>

----------------------------------------------------------------------------
(* Actions: score registry *)

AddStudent(student_id, scores, d) ==
    /\ CanPass(db, refs, scores, d)
    /\ LET r == add_student(db, refs, student_id, scores, d) IN
       /\ db' = r.students
       /\ refs' = r.refs
       /\ ret' = [op |-> "add_student", student_id |-> student_id,
                  scores |-> scores, object |-> d, out |-> r.out]
    /\ UNCHANGED <<now, instances, nextId, issued, credentials, credFiles, proofs,
                   proofLog, trusted_issuers, snarkjs>>

UpdateStudentScores(student_id, scores) ==
    /\ LET r == update_student_scores(db, refs, student_id, scores) IN
       /\ db' = r.students
       /\ refs' = r.refs
       /\ ret' = [op |-> "update_student_scores", student_id |-> student_id,
                  scores |-> scores, out |-> r.out]
    /\ UNCHANGED <<now, instances, nextId, issued, credentials, credFiles, proofs,
                   proofLog, trusted_issuers, snarkjs>>

DeleteStudent(student_id) ==
    /\ LET r == delete_student(db, refs, student_id) IN
       /\ db' = r.students
       /\ refs' = r.refs
       /\ ret' = [op |-> "delete_student", student_id |-> student_id,
                  out |-> r.out]
    /\ UNCHANGED <<now, instances, nextId, issued, credentials, credFiles, proofs,
                   proofLog, trusted_issuers, snarkjs>>

GetStudentScores(student_id) ==
    /\ ret' = [op |-> "get_student_scores", student_id |-> student_id,
               out |-> get_student_scores(db, student_id)]
    /\ UNCHANGED <<refs, now, instances, db, nextId, issued, credentials, credFiles, proofs, proofLog,
                   trusted_issuers, snarkjs>>

HasStudent(student_id) ==
    /\ ret' = [op |-> "has_student", student_id |-> student_id,
               out |-> has_student(db, student_id)]
    /\ UNCHANGED <<refs, now, instances, db, nextId, issued, credentials, credFiles, proofs, proofLog,
                   trusted_issuers, snarkjs>>

----------------------------------------------------------------------------
(* Actions: several CredentialDatabase instances opened on one db_path *)

\* Here db is the file at db_path alone, and every instance is one of
\* instances.

\* CredentialDatabase(db_path): _load reads the whole file into the
\* instance's own _db.
OpenDatabase(w) ==
    /\ w \notin DOMAIN instances
    /\ instances' = Put(instances, w, [students |-> db, refs |-> LoadedRefs(w, db)])
    /\ ret' = [op |-> "open", instance |-> w]
    /\ UNCHANGED <<now, db, refs, nextId, issued, credentials, credFiles, proofs,
                   proofLog, trusted_issuers, snarkjs>>

\* _save: json.dump of the instance's whole _db over the file.  A call that
\* returns False returns before _save.
InstanceAddStudent(w, student_id, scores, d) ==
    /\ w \in DOMAIN instances
    /\ \A v \in DOMAIN instances :
          CanPass(instances[v].students, instances[v].refs, scores, d)
    /\ LET r == add_student(instances[w].students, instances[w].refs,
                            student_id, scores, d)
       IN
       /\ instances' = Put(instances, w, [students |-> r.students, refs |-> r.refs])
       /\ db' = IF r.out THEN r.students ELSE db
       /\ ret' = [op |-> "add_student", instance |-> w,
                  student_id |-> student_id, scores |-> scores, object |-> d,
                  out |-> r.out]
    /\ UNCHANGED <<now, refs, nextId, issued, credentials, credFiles, proofs,
                   proofLog, trusted_issuers, snarkjs>>

\* The dict object changed in place is changed for every instance of the
\* process that holds it; only the calling instance saves.
InstanceUpdateStudentScores(w, student_id, scores) ==
    /\ w \in DOMAIN instances
    /\ LET r == update_student_scores(instances[w].students, instances[w].refs,
                                      student_id, scores)
       IN
       /\ instances' =
              [v \in DOMAIN instances |->
                 IF v = w THEN [students |-> r.students, refs |-> r.refs]
                 ELSE IF ~r.out THEN instances[v]
                 ELSE [students |-> Mutated(instances[v].students, instances[v].refs,
                                            r.refs[student_id], r.students[student_id]),
                       refs |-> instances[v].refs]]
       /\ db' = IF r.out THEN r.students ELSE db
       /\ ret' = [op |-> "update_student_scores", instance |-> w,
                  student_id |-> student_id, scores |-> scores, out |-> r.out]
    /\ UNCHANGED <<now, refs, nextId, issued, credentials, credFiles, proofs,
                   proofLog, trusted_issuers, snarkjs>>

----------------------------------------------------------------------------
(* Actions: holder *)

StoreCredential(credential_data, io) ==
    /\ LET r == store_credential(credentials, credFiles, credential_data, io) IN
       /\ credentials' = r.credentials
       /\ credFiles' = r.files
       /\ ret' = [op |-> "store_credential", credential_data |-> credential_data,
                  out |-> r.out]
    /\ UNCHANGED <<refs, now, instances, db, nextId, issued, proofs, proofLog, trusted_issuers, snarkjs>>

\* A CredentialHolder constructed again on the same data directory.
LoadCredentials ==
    /\ credentials' = load_credentials(credFiles)
    /\ ret' = [op |-> "load_credentials"]
    /\ UNCHANGED <<refs, now, instances, db, nextId, issued, credFiles, proofs, proofLog,
                   trusted_issuers, snarkjs>>

GenerateProof(credential_id, threshold, scale_factor, fault) ==
    /\ Cardinality(proofLog) < MaxProofs
    /\ LET r == generate_proof(HolderId, credentials, snarkjs, fault,
                               credential_id, threshold, scale_factor)
       IN
       /\ ret' = [op |-> "generate_proof", credential_id |-> credential_id,
                  threshold |-> threshold, scale_factor |-> scale_factor,
                  fault |-> fault, input_data |-> r.input_data,
                  out |-> r.out, raised |-> r.raised, calls |-> r.calls]
       /\ IF r.out = None
          THEN /\ proofs' = Dump(proofs, credential_id, None, r.io)
               /\ UNCHANGED proofLog
          ELSE /\ proofs' = Dump(proofs, credential_id, r.out[1], r.io)
               /\ proofLog' = proofLog \cup
                      {[credential |-> GetOr(GetOr(credentials, credential_id, EmptyDict),
                                             "credential", EmptyDict),
                        threshold |-> threshold,
                        scale_factor |-> scale_factor,
                        bundle |-> r.out[1]]}
    /\ UNCHANGED <<refs, now, instances, db, nextId, issued, credentials, credFiles, trusted_issuers, snarkjs>>

\* The environment installs or removes the snarkjs executable.
SetSnarkjs(installed) ==
    /\ snarkjs # installed
    /\ snarkjs' = installed
    /\ ret' = [op |-> "environment"]
    /\ UNCHANGED <<refs, now, instances, db, nextId, issued, credentials, credFiles, proofs, proofLog,
                   trusted_issuers>>

----------------------------------------------------------------------------
(* Actions: verifier *)

AddTrustedIssuer(issuer_name, public_key_path) ==
    /\ LET r == add_trusted_issuer(trusted_issuers, issuer_name, public_key_path) IN
       /\ trusted_issuers' = r.trusted
       /\ ret' = [op |-> "add_trusted_issuer", issuer_name |-> issuer_name,
                  public_key_path |-> public_key_path, out |-> r.out]
    /\ UNCHANGED <<refs, now, instances, db, nextId, issued, credentials, credFiles, proofs, proofLog,
                   snarkjs>>

VerifyProof(proof_data, verification_key_path, threshold, backend_fault) ==
    /\ LET r == verify_proof(snarkjs, backend_fault, proof_data,
                             verification_key_path, threshold)
       IN  ret' = [op |-> "verify_proof", proof_data |-> proof_data,
                   verification_key_path |-> verification_key_path,
                   threshold |-> threshold, installed |-> snarkjs,
                   raised |-> r.raised, calls |-> r.calls,
                   out |-> IF r.raised THEN None ELSE Some(r.result)]
    /\ UNCHANGED <<refs, now, instances, db, nextId, issued, credentials, credFiles, proofs, proofLog,
                   trusted_issuers, snarkjs>>

VerifyWithIssuer(proof_data, issuer_name) ==
    /\ ret' = [op |-> "verify_with_issuer", proof_data |-> proof_data,
               issuer_name |-> issuer_name,
               out |-> verify_with_issuer(proof_data, issuer_name)]
    /\ UNCHANGED <<refs, now, instances, db, nextId, issued, credentials, credFiles, proofs, proofLog,
                   trusted_issuers, snarkjs>>

----------------------------------------------------------------------------
(* Initial states and input sets *)

\* Every component freshly constructed on empty directories.
Fresh ==
    /\ instances = EmptyDict
    /\ now = KeysWritten
    /\ nextId = 1
    /\ issued = {}
    /\ credentials = EmptyDict
    /\ credFiles = EmptyDict
    /\ proofs = EmptyDict
    /\ proofLog = {}
    /\ trusted_issuers = EmptyDict
    /\ ret = [op |-> "init"]

\* The registries an issuer is started on: a subject with at most one score
\* type on record (so that a request can miss the subject or the score type).
IssuerRegistries == {r \in Registries : \A x \in DOMAIN r : Cardinality(DOMAIN r[x]) <= 1}

Faults == {"none", "compile", "setup", "witness", "prove", "open", "write"}
VerificationKeyPaths == {"verification_key.json", "other.json"}
KeyPaths == {PublicKeyPath(n) : n \in IssuerNames} \cup {"missing.pem"}
OptionalThresholds == {None} \cup {Some(t) : t \in Thresholds}

\* A credential as an issuer returns it.
IssuedBundle(uuid, name, student_id, score_type, score_value) ==
    issue_credential(name, Put(EmptyDict, student_id, Put(EmptyDict, score_type, score_value)),
                     uuid, student_id, score_type)[1]

\* A bundle as generate_proof returns it for a credential with a high score.
GeneratedBundle(name, threshold, scale_factor) ==
    generate_proof(HolderId,
                   Put(EmptyDict, 1, IssuedBundle(1, name, HolderId, "gpa", 400)),
                   TRUE, "none", 1, threshold, scale_factor).out[1]

WithoutThreshold(b) == [b EXCEPT !.metadata = Remove(b.metadata, "threshold")]
WithThreshold(b, t) == [b EXCEPT !.metadata = Put(b.metadata, "threshold", t)]
WithScale(b, f) == [b EXCEPT !.metadata = Put(b.metadata, "scale_factor", f)]
WithJunkProof(b) == [b EXCEPT !.proof = [pi |-> "junk"]]

\* What a verifier can be handed: generated bundles, the same with the
\* metadata threshold rewritten or dropped, with the proof replaced, and
\* with a top-level field missing.
VerifierBundles ==
    LET base == {GeneratedBundle("SchoolA", t, f) : t \in Thresholds, f \in Scales}
        edited == {WithThreshold(x, t) : x \in base, t \in Thresholds}
                    \cup {WithoutThreshold(x) : x \in base}
    IN  edited \cup {WithJunkProof(x) : x \in edited}
               \cup {Remove(x, k) : x \in base, k \in {"proof", "public", "metadata"}}

----------------------------------------------------------------------------
(* The issuer with its registry and signer *)

InitIssuer == Fresh /\ db \in IssuerRegistries /\ refs = LoadedRefs("db", db) /\ snarkjs = TRUE

NextIssuer ==
    \/ \E name \in IssuerNames, s \in Students \cup {"s2"}, t \in ScoreTypes :
           IssueCredential(name, s, t)
    \/ \E name \in IssuerNames,
          c \in IssuedRecords \cup TamperedRecords,
          g \in KnownSignatures :
           VerifyCredential(name, c, g)

SpecIssuer == InitIssuer /\ [][NextIssuer]_vars

\* The issuer while time passes.
NextClock == NextIssuer \/ Tick

SpecClock == InitIssuer /\ [][NextClock]_vars

----------------------------------------------------------------------------
(* The issuer while its registry is written *)

InitRegistry == Fresh /\ db = EmptyDict /\ refs = LoadedRefs("db", db) /\ snarkjs = TRUE

NextRegistry ==
    \/ \E s \in Students, scores \in ScoreMaps, d \in CallerObjects :
           AddStudent(s, scores, d)
    \/ \E s \in Students, scores \in ScoreMaps : UpdateStudentScores(s, scores)
    \/ \E s \in Students : DeleteStudent(s)
    \/ \E s \in Students : GetStudentScores(s)
    \/ \E s \in Students : HasStudent(s)
    \/ \E name \in IssuerNames, s \in Students, t \in ScoreTypes :
           IssueCredential(name, s, t)
    \/ \E b \in issued :
           VerifyCredential(b.credential.issuer, b.credential, b.signature)

SpecRegistry == InitRegistry /\ [][NextRegistry]_vars

----------------------------------------------------------------------------
(* One CredentialDatabase with several students *)

SharedStudents == {"s1", "s2"}

InitDatabase == Fresh /\ db = EmptyDict /\ refs = LoadedRefs("db", db) /\ snarkjs = TRUE

NextDatabase ==
    \/ \E s \in SharedStudents, scores \in ScoreMaps, d \in CallerObjects :
           AddStudent(s, scores, d)
    \/ \E s \in SharedStudents, scores \in ScoreMaps : UpdateStudentScores(s, scores)
    \/ \E s \in SharedStudents : DeleteStudent(s)
    \/ \E s \in SharedStudents : GetStudentScores(s)
    \/ \E s \in SharedStudents : HasStudent(s)

SpecDatabase == InitDatabase /\ [][NextDatabase]_vars

----------------------------------------------------------------------------
(* Two writers of one registry file *)

InstanceNames == {"w1", "w2"}
SharedScoreMaps == [{"gpa"} -> Values]

InitShared == Fresh /\ db = EmptyDict /\ refs = LoadedRefs("db", db) /\ snarkjs = TRUE

NextShared ==
    \/ \E w \in InstanceNames : OpenDatabase(w)
    \/ \E w \in InstanceNames, s \in SharedStudents, scores \in SharedScoreMaps,
          d \in CallerObjects :
           InstanceAddStudent(w, s, scores, d)
    \/ \E w \in InstanceNames, s \in SharedStudents, scores \in SharedScoreMaps :
           InstanceUpdateStudentScores(w, s, scores)

SpecShared == InitShared /\ [][NextShared]_vars

----------------------------------------------------------------------------
(* The verifier on the bundles it can be handed *)

\* What verify_with_issuer can be handed: generated bundles of either
\* issuer, the same with the proof replaced, with the issuer name dropped
\* from the metadata, and without metadata.
IssuerCheckBundles ==
    LET base == {GeneratedBundle(n, 300, DefaultScaleFactor) : n \in IssuerNames}
    IN  base \cup {WithJunkProof(x) : x \in base}
             \cup {[x EXCEPT !.metadata = Remove(x.metadata, "credential_issuer")] : x \in base}
             \cup {Remove(x, "metadata") : x \in base}

InitVerifier == Fresh /\ db = EmptyDict /\ refs = LoadedRefs("db", db) /\ snarkjs \in BOOLEAN

NextVerifier ==
    \/ \E b \in VerifierBundles, vk \in VerificationKeyPaths,
          t \in OptionalThresholds, bf \in BOOLEAN :
           VerifyProof(b, vk, t, bf)
    \/ \E b \in IssuerCheckBundles, n \in IssuerNames : VerifyWithIssuer(b, n)
    \/ \E n \in IssuerNames, path \in KeyPaths : AddTrustedIssuer(n, path)
    \/ \E i \in BOOLEAN : SetSnarkjs(i)

SpecVerifier == InitVerifier /\ [][NextVerifier]_vars

----------------------------------------------------------------------------
(* The holder on the credentials it can be handed *)

\* Credentials as the issuers return them, one of them under a credential_id
\* that Python takes for false (0 stands for "", 0 and None), and one of them
\* with a part missing.
HolderBundles ==
    LET good == {IssuedBundle(1, "SchoolA", HolderId, "gpa", v) : v \in Values}
                    \cup {IssuedBundle(1, "SchoolB", HolderId, "sat", 350),
                          IssuedBundle(0, "SchoolA", HolderId, "gpa", 325)}
        one == IssuedBundle(1, "SchoolA", HolderId, "gpa", 325)
    IN  good \cup {Remove(one, "signature"), Remove(one, "credential"),
                   [one EXCEPT !.credential = Remove(one.credential, "credential_id")],
                   [one EXCEPT !.credential = Remove(one.credential, "score_value")]}

\* The thresholds and scale factors the holder is asked to prove for: a
\* scale of one decimal, and the default scale for two thresholds.
HolderRequests == {<<300, 10>>} \cup {<<t, DefaultScaleFactor>> : t \in Thresholds}

\* The bundle whose file is written while writes can fail.
WriteBundles == {IssuedBundle(1, "SchoolA", HolderId, "gpa", 350)}

InitHolder == Fresh /\ db = EmptyDict /\ refs = LoadedRefs("db", db) /\ snarkjs \in BOOLEAN

NextHolder ==
    \/ \E b \in HolderBundles : StoreCredential(b, "ok")
    \/ \E b \in WriteBundles, io \in IoOutcomes : StoreCredential(b, io)
    \/ LoadCredentials
    \/ \E id \in {1, 2}, q \in HolderRequests :
           GenerateProof(id, q[1], q[2], "none")
    \/ \E id \in {1, 2}, fault \in Faults :
           GenerateProof(id, 300, DefaultScaleFactor, fault)
    \/ \E i \in BOOLEAN : SetSnarkjs(i)

SpecHolder == InitHolder /\ [][NextHolder]_vars

----------------------------------------------------------------------------
(* The holder's conversion of scores and thresholds to circuit integers *)

ScalingScores == {229, 325}
ScalingThresholds == {-325, 230, 350}
ScalingScales == {1, 100}

InitScaling == Fresh /\ db = EmptyDict /\ refs = LoadedRefs("db", db) /\ snarkjs = TRUE

NextScaling ==
    \/ \E v \in ScalingScores :
           StoreCredential(IssuedBundle(1, "SchoolA", HolderId, "gpa", v), "ok")
    \/ \E t \in ScalingThresholds, f \in ScalingScales :
           GenerateProof(1, t, f, "none")

SpecScaling == InitScaling /\ [][NextScaling]_vars

----------------------------------------------------------------------------
(* The whole protocol: issue, store, prove, trust the issuer, verify. *)

\* An issued bundle with the score raised and the signature kept.
Tampered(b) == [b EXCEPT !.credential = Put(b.credential, "score_value", 350)]

\* A credential written by the holder: no issuer ever signed it.
Forged ==
    [credential |-> [credential_id |-> 99, issuer |-> "SchoolA",
                     issued_to |-> HolderId, score_type |-> "gpa",
                     score_value |-> 350, issued_at |-> KeyFileMtime("SchoolA")],
     signature |-> [text |-> "junk"]]

\* The bundles generate_proof has returned, as the holder may send them:
\* unchanged, or with the metadata threshold or scale factor rewritten.
ReturnedBundles == {e.bundle : e \in proofLog}
SentBundles ==
    {WithScale(WithThreshold(b, t), f) :
        b \in ReturnedBundles, t \in Thresholds, f \in Scales}

Init ==
    /\ Fresh
    /\ db = Put(EmptyDict, HolderId, Put(EmptyDict, "gpa", 325))
    /\ refs = LoadedRefs("db", db)
    /\ snarkjs = TRUE

Next ==
    \/ \E name \in IssuerNames : IssueCredential(name, HolderId, "gpa")
    \/ \E b \in issued \cup {Tampered(x) : x \in issued} \cup {Forged} :
           StoreCredential(b, "ok")
    \/ \E id \in DOMAIN credentials, t \in Thresholds :
           GenerateProof(id, t, DefaultScaleFactor, "none")
    \/ \E name \in IssuerNames : AddTrustedIssuer(name, PublicKeyPath(name))
    \/ \E b \in SentBundles, t \in OptionalThresholds :
           VerifyProof(b, "verification_key.json", t, FALSE)
    \/ \E b \in ReturnedBundles, n \in IssuerNames : VerifyWithIssuer(b, n)

Spec == Init /\ [][Next]_vars

----------------------------------------------------------------------------
(* Canonical signer and issuer: properties *)

IsVerifyCredential == ret.op = "verify_credential"

\* C9: sign/verify round trip.  Every bundle issue_credential returned
\* carries a signature made over the key-sorted encoding of the credential
\* fields alone, and verify_credential by the issuing issuer on that
\* credential and signature returns true.
C9_RoundTrip ==
    /\ \A b \in issued :
         /\ B64Decode(b.signature).bytes = Some(RsaSign(PrivateKey(b.credential.issuer),
                                                        CanonicalBytes(b.credential)))
         /\ verify_credential(b.credential.issuer, b.credential, b.signature) = "True"
    /\ (/\ IsVerifyCredential
        /\ [credential |-> ret.credential, signature |-> ret.signature] \in issued
        /\ ret.name = ret.credential.issuer)
       => ret.out = "True"

C9_Witness ==
    /\ IsVerifyCredential
    /\ [credential |-> ret.credential, signature |-> ret.signature] \in issued
    /\ ret.name = ret.credential.issuer
    /\ ret.out = "True"
    /\ Cardinality(issued) = 2

\* C10: tamper and wrong-key detection.  When verify_credential is given the
\* signature of an issued credential together with a record that differs
\* from the signed record, or is run by an issuer other than the signer
\* (another public key), it returns false.
C10_TamperOrWrongKeyRejected ==
    IsVerifyCredential =>
        \A b \in issued :
            (/\ b.signature = ret.signature
             /\ \/ ret.credential # b.credential
                \/ PublicKey(ret.name) # PublicKey(b.credential.issuer))
            => ret.out = "False"

C10_Witness ==
    /\ IsVerifyCredential
    /\ ret.out = "False"
    /\ \E b \in issued :
         /\ b.signature = ret.signature
         /\ ret.name = b.credential.issuer
         /\ "score_value" \in DOMAIN ret.credential
         /\ ret.credential = [b.credential EXCEPT !.score_value = ret.credential.score_value]
         /\ ret.credential # b.credential

C10_WitnessWrongKey ==
    /\ IsVerifyCredential
    /\ ret.out = "False"
    /\ [credential |-> ret.credential, signature |-> ret.signature] \in issued
    /\ ret.name # ret.credential.issuer

----------------------------------------------------------------------------
(* Verifier: properties of one verify_proof call *)

IsVerifyProof == ret.op = "verify_proof"
RetMetadata == GetOr(ret.proof_data, "metadata", EmptyDict)
RetProofThreshold == Get(RetMetadata, "threshold")
RetThresholdDiffers == ret.threshold # None /\ ret.threshold # RetProofThreshold
RetWellFormed == {"proof", "public"} \subseteq DOMAIN ret.proof_data
RetValid == ~ret.raised /\ ret.out[1].valid
RetInvalid == ~ret.raised /\ ~ret.out[1].valid

\* C1: threshold binding.  When an expected threshold is given and differs
\* from the threshold in the bundle's metadata, verify_proof returns a
\* result with valid = False and makes no call to ZKPUtils.verify_proof.
C1_MismatchRejectedWithoutBackend ==
    (IsVerifyProof /\ RetThresholdDiffers) => (RetInvalid /\ ret.calls = <<>>)

\* The case happens with the backend installed and a bundle the backend
\* would accept.
C1_Witness ==
    /\ IsVerifyProof
    /\ RetThresholdDiffers
    /\ ret.installed
    /\ RetWellFormed
    /\ zkp_verify_proof(ret.verification_key_path, ret.proof_data.proof,
                        ret.proof_data.public)
    /\ RetInvalid
    /\ ret.calls = <<>>

\* C5: with snarkjs installed and the expected threshold absent or equal to
\* the metadata threshold, verify_proof on a bundle holding a proof and
\* public inputs calls ZKPUtils.verify_proof exactly once, with the given
\* verification key and the bundle's proof and public inputs; the result is
\* valid, carrying the bundle's metadata, exactly when that call returned
\* true, and is the invalid-proof error when it returned false.
C5_BackendVerdictDecides ==
    (IsVerifyProof /\ ret.installed /\ ~RetThresholdDiffers /\ RetWellFormed) =>
        /\ ~ret.raised
        /\ Len(ret.calls) = 1
        /\ ret.calls[1].verification_key_path = ret.verification_key_path
        /\ ret.calls[1].proof = ret.proof_data.proof
        /\ ret.calls[1].public = ret.proof_data.public
        /\ ret.out[1].valid <=> ret.calls[1].returned = "True"
        /\ ret.out[1].valid => ret.out[1].metadata = RetMetadata
        /\ ret.calls[1].returned = "False" =>
               ret.out[1] = Invalid([kind |-> "InvalidProof"])

C5_Witness ==
    /\ IsVerifyProof
    /\ ret.installed
    /\ ret.threshold # None
    /\ ~RetThresholdDiffers
    /\ RetWellFormed
    /\ Len(ret.calls) = 1
    /\ ret.calls[1].returned = "True"
    /\ RetValid
    /\ ret.out[1].metadata = ret.proof_data.metadata

C5_WitnessRejected ==
    /\ IsVerifyProof
    /\ ret.installed
    /\ ~RetThresholdDiffers
    /\ RetWellFormed
    /\ ret.calls[1].returned = "False"
    /\ ret.out[1] = Invalid([kind |-> "InvalidProof"])

\* C6: a given expected threshold that differs from the metadata threshold
\* is reported as a threshold mismatch whatever the state of the backend,
\* snarkjs missing included.
C6_MismatchReportedFirst ==
    (IsVerifyProof /\ RetThresholdDiffers) =>
        (RetInvalid /\ ret.out[1].error.kind = "ThresholdMismatch")

----------------------------------------------------------------------------
(* Holder: what a bundle discloses *)

DiffersOnlyInScore(c, d) ==
    /\ DOMAIN c = DOMAIN d
    /\ \A k \in DOMAIN c \ {"score_value"} : c[k] = d[k]
    /\ c.score_value # d.score_value

\* The number-valued fields of a bundle outside the opaque proof
\* (credential_id is a uuid string in the program, not a number).
NumericFields(bundle) ==
    {bundle.metadata.threshold, bundle.metadata.scale_factor}
        \cup {bundle.public[i] : i \in 1..Len(bundle.public)}

ScoreOf(e) == e.credential.score_value
ScoreIntOf(e) == ScaleToInt(e.credential.score_value, e.scale_factor)

SameBundlesForSameRequest ==
    \A a, b \in proofLog :
        (/\ DiffersOnlyInScore(a.credential, b.credential)
         /\ a.threshold = b.threshold
         /\ a.scale_factor = b.scale_factor)
        => /\ a.bundle.metadata = b.bundle.metadata
           /\ a.bundle.public = b.bundle.public

\* C8 as stated: bundles for credentials that differ only in score_value
\* are identical in metadata and public inputs, and no field of a bundle
\* equals score_value or score_int.
C8_NoFieldEqualsScore ==
    /\ SameBundlesForSameRequest
    /\ \A e \in proofLog :
         NumericFields(e.bundle) \cap {ScoreOf(e), ScoreIntOf(e)} = {}

\* C8 amended: bundles for credentials that differ only in score_value are
\* identical in metadata and public inputs, and a field of a bundle equals
\* score_value or score_int only where the threshold argument, its scaled
\* value or the scale factor argument has that same value.
C8_BundleIndependentOfScore ==
    /\ SameBundlesForSameRequest
    /\ \A e \in proofLog :
         NumericFields(e.bundle) \cap {ScoreOf(e), ScoreIntOf(e)}
            \subseteq {e.threshold, e.scale_factor,
                       ScaleToInt(e.threshold, e.scale_factor)}

C8_Witness ==
    \E a, b \in proofLog :
        /\ DiffersOnlyInScore(a.credential, b.credential)
        /\ a.threshold = b.threshold
        /\ a.scale_factor = b.scale_factor
        /\ a.bundle.metadata = b.bundle.metadata
        /\ a.bundle.public = b.bundle.public
        /\ ScoreIntOf(a) # ScoreIntOf(b)

----------------------------------------------------------------------------
(* Protocol: what a verified bundle is bound to *)

\* The thresholds the proof of the bundle just verified was generated for.
RetGeneratedFor ==
    {e.threshold : e \in {x \in proofLog : x.bundle.proof = ret.proof_data.proof}}

\* C2: whenever verify_proof returns a valid result for an expected
\* threshold T, the threshold in the public inputs the backend verified is
\* floor(T * metadata.scale_factor), and T is the threshold the proof was
\* generated for: a bundle whose metadata threshold was rewritten after
\* generation is not accepted.
C2_ValidBindsPublicThreshold ==
    (IsVerifyProof /\ ret.threshold # None /\ RetValid) =>
        /\ ret.proof_data.public =
               <<ScaleToInt(ret.threshold[1],
                            GetOr(RetMetadata, "scale_factor", DefaultScaleFactor))>>
        /\ RetGeneratedFor \subseteq {ret.threshold[1]}

\* A proof generated for 3.0 is accepted for 3.5 once the metadata says 3.5.
C2_EditedThresholdAccepted ==
    /\ IsVerifyProof
    /\ RetValid
    /\ ret.threshold = Some(350)
    /\ RetGeneratedFor = {300}
    /\ ret.proof_data.public = <<300>>
    /\ ret.proof_data.metadata.scale_factor = DefaultScaleFactor

\* C7: a bundle whose metadata scale factor differs from the verifier's
\* scale factor (100), or from the scale factor its proof's inputs were
\* scaled with, is rejected by verify_proof as a scale factor mismatch.
C7_ScaleMismatchRejected ==
    IsVerifyProof =>
        LET claimed == GetOr(RetMetadata, "scale_factor", DefaultScaleFactor)
            used == {e.scale_factor : e \in {x \in proofLog :
                        x.bundle.proof = ret.proof_data.proof}}
        IN  (claimed # DefaultScaleFactor \/ used \ {claimed} # {})
            => (RetInvalid /\ ret.out[1].error.kind = "ScaleFactorMismatch")

\* C3: the life cycle Unissued -> Issued -> Held -> ProofGenerated ->
\* Verified.  A credential is held, has a proof generated, and is verified
\* with an issuer only if that issuer's issue_credential returned exactly
\* that record with that signature.
HeldOnlyIfIssued == \A id \in DOMAIN credentials : credentials[id] \in issued
ProvedOnlyIfIssued == \A e \in proofLog : e.credential \in IssuedRecords
VerifiedOnlyIfIssued ==
    (ret.op = "verify_with_issuer" /\ ret.out.valid) =>
        \A e \in proofLog :
            e.bundle = ret.proof_data =>
                \E b \in issued : /\ b.credential = e.credential
                                  /\ b.credential.issuer = ret.issuer_name

C3_LifecycleOrder ==
    HeldOnlyIfIssued /\ ProvedOnlyIfIssued /\ VerifiedOnlyIfIssued

\* The forged credential goes all the way: a proof generated from a record
\* no issuer signed is valid for verify_proof and for verify_with_issuer.
C3_ForgedProved == \E e \in proofLog : e.credential = Forged.credential
C3_ForgedVerified ==
    /\ ret.op = "verify_with_issuer"
    /\ ret.out.valid
    /\ issued = {}
    /\ \E e \in proofLog : e.bundle = ret.proof_data

\* C4: verify_with_issuer returns a valid result only for a bundle whose
\* metadata.credential_issuer has an entry in the verifier's trust registry.
C4_ValidOnlyIfTrusted ==
    (ret.op = "verify_with_issuer" /\ ret.out.valid) =>
        ret.proof_data.metadata.credential_issuer \in DOMAIN trusted_issuers

----------------------------------------------------------------------------
(* Signer and issuer: failure outcomes *)

\* C11: verify never throws.  For every signature input, malformed base64
\* included, verify_credential (CryptoUtils.verify_signature) returns true
\* or false and raises nothing.
C11_VerifyNeverRaises ==
    IsVerifyCredential => ret.out \in {"True", "False"}

\* A signature string with broken base64 padding makes the call raise.
C11_BadPaddingRaises ==
    /\ IsVerifyCredential
    /\ ret.signature = [text |-> "badpad"]
    /\ ret.credential \in IssuedRecords
    /\ ret.out = "Raises"

IsIssueCredential == ret.op = "issue_credential"

\* The request of the last issue_credential call misses the registry.
RetNotOnRecord ==
    \/ ret.student_id \notin DOMAIN db
    \/ ret.score_type \notin DOMAIN db[ret.student_id]

\* C12: issue_credential returns None, creating no credential and no
\* signature (no uuid drawn, nothing added to what was issued), whenever the
\* subject is absent from the registry or the score type is absent from the
\* subject's score map; it returns a credential only when both are present.
C12_NotFoundCreatesNothing ==
    [][ (ret'.op = "issue_credential") =>
          LET absent == \/ ret'.student_id \notin DOMAIN db
                        \/ ret'.score_type \notin DOMAIN db[ret'.student_id]
          IN  /\ absent => (ret'.out = None /\ issued' = issued /\ nextId' = nextId)
              /\ ret'.out # None => ~absent ]_vars

\* A subject on record without the requested score type, after another
\* credential was issued.
C12_Witness ==
    /\ IsIssueCredential
    /\ ret.student_id \in DOMAIN db
    /\ ret.score_type \notin DOMAIN db[ret.student_id]
    /\ ret.out = None
    /\ issued # {}

C12_WitnessAbsentSubject ==
    /\ IsIssueCredential
    /\ ret.student_id \notin DOMAIN db
    /\ ret.out = None

\* C13: credential_id is unique per issuance.  The successful
\* issue_credential calls so far (nextId - 1 of them, by any issuer, repeated
\* requests included) returned credentials with pairwise distinct
\* credential_id, each with a signature that verifies under its issuer's key.
C13_UniqueCredentialId ==
    /\ Cardinality({b.credential.credential_id : b \in issued}) = nextId - 1
    /\ \A a, b \in issued :
         a.credential.credential_id = b.credential.credential_id => a = b
    /\ \A b \in issued :
         verify_credential(b.credential.issuer, b.credential, b.signature) = "True"

\* The same subject and score type issued twice by the same issuer.
C13_Witness ==
    \E a, b \in issued :
        /\ a.credential.credential_id # b.credential.credential_id
        /\ a.credential.issuer = b.credential.issuer
        /\ a.credential.issued_to = b.credential.issued_to
        /\ a.credential.score_type = b.credential.score_type
        /\ verify_credential(b.credential.issuer, b.credential, b.signature) = "True"

\* The same subject and score type issued by two issuers.
C13_WitnessTwoIssuers ==
    \E a, b \in issued :
        /\ a.credential.credential_id # b.credential.credential_id
        /\ a.credential.issuer # b.credential.issuer
        /\ a.credential.issued_to = b.credential.issued_to

\* C14: the score value is copied at issuance.  The credential issue_credential
\* returns holds the score on record at that moment; every later step, the
\* registry writes add_student, update_student_scores and delete_student
\* included, leaves each issued credential as it was, and its signature
\* still verifies.
C14_IssuedCredentialsFrozen ==
    /\ [](\A b \in issued :
            verify_credential(b.credential.issuer, b.credential, b.signature) = "True")
    /\ [](IsVerifyCredential => ret.out = "True")
    /\ [][ /\ issued \subseteq issued'
           /\ (ret'.op = "issue_credential" /\ ret'.out # None) =>
                  ret'.out[1].credential.score_value
                      = db[ret'.student_id][ret'.score_type] ]_vars

\* A credential verified after the registry changed its score.
C14_Witness ==
    /\ IsVerifyCredential
    /\ ret.out = "True"
    /\ [credential |-> ret.credential, signature |-> ret.signature] \in issued
    /\ ret.credential.issued_to \in DOMAIN db
    /\ ret.credential.score_type \in DOMAIN db[ret.credential.issued_to]
    /\ db[ret.credential.issued_to][ret.credential.score_type]
           # ret.credential.score_value

\* A credential still issued and valid after its subject was deleted.
C14_WitnessDeleted ==
    /\ ret.op = "delete_student"
    /\ ret.out
    /\ \E b \in issued :
         /\ b.credential.issued_to = ret.student_id
         /\ verify_credential(b.credential.issuer, b.credential, b.signature) = "True"

----------------------------------------------------------------------------
(* Holder: the credential store *)

IsStoreCredential == ret.op = "store_credential"

\* The bundle lacks the credential, the signature or credential.credential_id.
IllFormed(credential_data) ==
    \/ "credential" \notin DOMAIN credential_data
    \/ "signature" \notin DOMAIN credential_data
    \/ "credential_id" \notin DOMAIN credential_data.credential

\* C15: store_credential on a bundle that lacks the credential, the
\* signature or credential.credential_id returns false and leaves the
\* in-memory map and the credential files as they were.
C15_IllFormedRejected ==
    [][ (ret'.op = "store_credential" /\ IllFormed(ret'.credential_data)) =>
            /\ ret'.out = FALSE
            /\ credentials' = credentials
            /\ credFiles' = credFiles ]_vars

\* An ill-formed bundle rejected by a holder that already stores a credential.
C15_Witness ==
    /\ IsStoreCredential
    /\ IllFormed(ret.credential_data)
    /\ ret.out = FALSE
    /\ DOMAIN credentials # {}
    /\ credFiles = credentials

C15_WitnessNoSignature ==
    /\ IsStoreCredential
    /\ "credential" \in DOMAIN ret.credential_data
    /\ "signature" \notin DOMAIN ret.credential_data
    /\ ret.out = FALSE

\* C16: a stored credential is immutable.  No holder operation changes or
\* removes the content held under a credential_id, in memory or on file;
\* store_credential under an id already held with different content
\* returns false.
C16_StoredCredentialImmutable ==
    [][ /\ \A id \in DOMAIN credentials :
             /\ id \in DOMAIN credentials'
             /\ credentials'[id] = credentials[id]
        /\ \A id \in DOMAIN credFiles :
             /\ id \in DOMAIN credFiles'
             /\ credFiles'[id] = credFiles[id]
        /\ (/\ ret'.op = "store_credential"
            /\ ~IllFormed(ret'.credential_data)
            /\ ret'.credential_data.credential.credential_id \in DOMAIN credentials
            /\ credentials[ret'.credential_data.credential.credential_id]
                   # ret'.credential_data)
           => ret'.out = FALSE ]_vars

\* A second bundle stored under a held id replaced the first.
C16_Overwritten ==
    /\ IsStoreCredential
    /\ ret.out = TRUE
    /\ Get(ret.credential_data.credential, "score_value") = Some(350)
    /\ credentials[1] = ret.credential_data
    /\ credFiles[1] = ret.credential_data
    /\ \E e \in proofLog : e.credential.credential_id = 1
                           /\ e.credential.score_value = 325

----------------------------------------------------------------------------
(* Holder: proof generation *)

IsGenerateProof == ret.op = "generate_proof"

\* C17: generate_proof for a credential_id that is not in the holder's
\* store returns the failure outcome, calls no backend stage and persists
\* nothing; so every bundle generate_proof returns names in its metadata the
\* id it was asked for, and that id was in the store at the call.
C17_UnknownIdFails ==
    [][ (ret'.op = "generate_proof") =>
          /\ ret'.credential_id \notin DOMAIN credentials =>
                /\ ret'.out = None
                /\ ~ret'.raised
                /\ ret'.calls = <<>>
                /\ proofs' = proofs
                /\ proofLog' = proofLog
          /\ ret'.out # None =>
                /\ ret'.out[1].metadata.credential_id = ret'.credential_id
                /\ ret'.credential_id \in DOMAIN credentials ]_vars

\* An unknown id requested with the backend installed and working, from a
\* holder that stores another credential.
C17_Witness ==
    /\ IsGenerateProof
    /\ ret.credential_id \notin DOMAIN credentials
    /\ DOMAIN credentials # {}
    /\ snarkjs
    /\ ret.fault = "none"
    /\ ret.out = None
    /\ ret.calls = <<>>

\* The backend is unavailable or one of its stages fails in this call.
BackendFails(installed, fault) ==
    ~installed \/ \E i \in 1..Len(Stages) : fault = Stages[i]

\* C18: generate_proof returns and persists a bundle only after compile,
\* setup, witness and prove have all run, in that order; when snarkjs is
\* missing or a stage fails, it returns the failure value, raises nothing,
\* and neither returns nor persists a bundle for the request.
C18_BundleOnlyAfterAllStages ==
    [][ (ret'.op = "generate_proof") =>
          /\ ret'.out # None =>
                /\ ret'.calls = Stages
                /\ proofs' = Put(proofs, ret'.credential_id, ret'.out[1])
          /\ BackendFails(snarkjs, ret'.fault) =>
                /\ ~ret'.raised
                /\ ret'.out = None
                /\ proofs' = proofs
                /\ proofLog' = proofLog ]_vars

\* With snarkjs missing, a stored credential without score_value makes
\* generate_proof raise.
C18_RaisesWithoutBackend ==
    /\ IsGenerateProof
    /\ ~snarkjs
    /\ ret.raised
    /\ ret.credential_id \in DOMAIN credentials

\* For stored credentials that carry a score_value the failure handling is
\* as C18 says.
C18_FailureHandledForScoredCredentials ==
    [][ (/\ ret'.op = "generate_proof"
         /\ ret'.credential_id \in DOMAIN credentials
         /\ "score_value" \in DOMAIN credentials[ret'.credential_id].credential) =>
          /\ ret'.out # None =>
                /\ ret'.calls = Stages
                /\ proofs' = Put(proofs, ret'.credential_id, ret'.out[1])
          /\ BackendFails(snarkjs, ret'.fault) =>
                /\ ~ret'.raised
                /\ ret'.out = None
                /\ proofs' = proofs
                /\ proofLog' = proofLog ]_vars

\* C19: the metadata of every bundle generate_proof returns binds the
\* request: credential_id, credential_issuer and score_type are those of the
\* stored credential, threshold is the unscaled threshold argument,
\* scale_factor the scale_factor argument and student_id the holder's own id.
C19_MetadataBindsRequest ==
    [][ (ret'.op = "generate_proof" /\ ret'.out # None) =>
          LET m == ret'.out[1].metadata
              stored == credentials[ret'.credential_id].credential
          IN  /\ DOMAIN m = {"credential_id", "credential_issuer", "score_type",
                             "threshold", "student_id", "scale_factor"}
              /\ m.credential_id = stored.credential_id
              /\ m.credential_id = ret'.credential_id
              /\ m.credential_issuer = stored.issuer
              /\ m.score_type = stored.score_type
              /\ m.threshold = ret'.threshold
              /\ m.scale_factor = ret'.scale_factor
              /\ m.student_id = HolderId ]_vars

\* A bundle for threshold 3.0 at scale 10, whose scaled threshold 30 differs
\* from every unscaled one.
C19_Witness ==
    /\ IsGenerateProof
    /\ ret.out # None
    /\ ret.threshold = 300
    /\ ret.scale_factor = 10
    /\ ret.out[1].metadata.threshold = 300
    /\ ret.out[1].public = <<30>>
    /\ ret.out[1].metadata.credential_issuer = "SchoolB"
    /\ ret.out[1].metadata.score_type = "sat"

----------------------------------------------------------------------------
(* Verifier: the shape of every verify_proof outcome *)

\* The kinds MissingDependency, InvalidProof and ThresholdMismatch are the
\* program's backend-unavailable, cryptographically-invalid and
\* threshold-mismatch reasons.
TaxonomyKinds == {"MissingDependency", "InvalidProof", "ThresholdMismatch"}

\* C20: for every bundle, one lacking the proof or public field included,
\* verify_proof raises nothing and returns either a valid result carrying
\* the metadata or an invalid result whose reason is one of the three kinds
\* backend unavailable, cryptographically invalid, threshold mismatch (so
\* never the text of an internal exception).
C20_StructuredResultAlways ==
    IsVerifyProof =>
        /\ ~ret.raised
        /\ \/ /\ ret.out[1].valid
              /\ "metadata" \in DOMAIN ret.out[1]
           \/ /\ ~ret.out[1].valid
              /\ ret.out[1].error.kind \in TaxonomyKinds

\* A bundle without the proof field makes verify_proof raise.
C20_MalformedRaises ==
    /\ IsVerifyProof
    /\ ret.installed
    /\ "proof" \notin DOMAIN ret.proof_data
    /\ ret.raised

\* An exception of the backend call is returned as the reason.
C20_ExceptionTextReturned ==
    /\ IsVerifyProof
    /\ ~ret.raised
    /\ ~ret.out[1].valid
    /\ ret.out[1].error.kind = "ErrorVerifyingProof"

----------------------------------------------------------------------------
(* Verifier: issuer check and trust registry *)

IsVerifyWithIssuer == ret.op = "verify_with_issuer"
RetIssuerInProof == Get(GetOr(ret.proof_data, "metadata", EmptyDict), "credential_issuer")

\* C21: verify_with_issuer returns a valid result exactly when the
\* metadata's credential_issuer equals the issuer's name, and an
\* issuer-mismatch error otherwise, whatever the rest of the bundle and
\* whatever the trust registry holds.
C21_IssuerNameDecides ==
    IsVerifyWithIssuer =>
        /\ ret.out.valid <=> (RetIssuerInProof = Some(ret.issuer_name))
        /\ ~ret.out.valid =>
               ret.out.error = [kind |-> "IssuerMismatch",
                                proof_issuer |-> RetIssuerInProof,
                                issuer |-> ret.issuer_name]

\* Valid for a bundle with a replaced proof while the registry is empty.
C21_Witness ==
    /\ IsVerifyWithIssuer
    /\ ret.out.valid
    /\ trusted_issuers = EmptyDict
    /\ ret.proof_data.proof = [pi |-> "junk"]

\* Invalid for another issuer's bundle although both issuers are trusted.
C21_WitnessMismatch ==
    /\ IsVerifyWithIssuer
    /\ ~ret.out.valid
    /\ DOMAIN trusted_issuers = IssuerNames
    /\ RetIssuerInProof # None

\* The key a public key file holds, if it holds one.
KeyAt(path) ==
    IF path = PublicKeyPath("SchoolA") THEN Some(PublicKey("SchoolA"))
    ELSE IF path = PublicKeyPath("SchoolB") THEN Some(PublicKey("SchoolB"))
    ELSE None

\* C22: the trust registry follows the reference map "name -> key of the
\* last successful add_trusted_issuer".  A call whose key file loads returns
\* True and binds the name to that key, replacing an earlier binding and
\* leaving the other names alone; a call whose key cannot be loaded returns
\* False and changes nothing; verify_proof and verify_with_issuer leave the
\* registry as it is.
C22_RegistryIsLastSuccessfulAdd ==
    [][ /\ (ret'.op = "add_trusted_issuer") =>
              LET k == KeyAt(ret'.public_key_path) IN
              /\ ret'.out = (k # None)
              /\ k = None => trusted_issuers' = trusted_issuers
              /\ k # None =>
                   /\ DOMAIN trusted_issuers' = DOMAIN trusted_issuers \cup {ret'.issuer_name}
                   /\ trusted_issuers'[ret'.issuer_name] = k[1]
                   /\ \A n \in DOMAIN trusted_issuers \ {ret'.issuer_name} :
                        trusted_issuers'[n] = trusted_issuers[n]
        /\ (ret'.op \in {"verify_proof", "verify_with_issuer"}) =>
              trusted_issuers' = trusted_issuers ]_vars

\* A name bound to the key of the other issuer's file, and a failed add
\* that left a filled registry alone.
C22_Witness ==
    /\ ret.op = "add_trusted_issuer"
    /\ ~ret.out
    /\ DOMAIN trusted_issuers = IssuerNames
    /\ trusted_issuers["SchoolA"] = PublicKey("SchoolB")

----------------------------------------------------------------------------
(* Score registry against a reference map *)

\* The registry is m at every subject other than s.
SameElsewhere(m, n, s) ==
    /\ DOMAIN m \ {s} = DOMAIN n \ {s}
    /\ \A x \in DOMAIN m \ {s} : m[x] = n[x]

\* C23: the CredentialDatabase operations agree with a reference map.  add
\* inserts the score map and returns True exactly for an absent student;
\* update merges the given score types into the student's map, keeps the
\* other score types, and returns True exactly for a present student; delete
\* removes a present student and returns True exactly then; a failing call
\* returns False (None for get) and leaves the registry unchanged; get and
\* has report the map and never change it.
RegistryStepAgrees ==
    LET s == ret'.student_id IN
    /\ (ret'.op = "add_student") =>
          /\ ret'.out = (s \notin DOMAIN db)
          /\ ret'.out => (s \in DOMAIN db' /\ db'[s] = ret'.scores
                          /\ SameElsewhere(db, db', s))
          /\ ~ret'.out => db' = db
    /\ (ret'.op = "update_student_scores") =>
          /\ ret'.out = (s \in DOMAIN db)
          /\ ret'.out =>
               /\ s \in DOMAIN db'
               /\ DOMAIN db'[s] = DOMAIN db[s] \cup DOMAIN ret'.scores
               /\ \A t \in DOMAIN ret'.scores : db'[s][t] = ret'.scores[t]
               /\ \A t \in DOMAIN db[s] \ DOMAIN ret'.scores : db'[s][t] = db[s][t]
               /\ SameElsewhere(db, db', s)
          /\ ~ret'.out => db' = db
    /\ (ret'.op = "delete_student") =>
          /\ ret'.out = (s \in DOMAIN db)
          /\ s \notin DOMAIN db'
          /\ SameElsewhere(db, db', s)
    /\ (ret'.op = "get_student_scores") =>
          /\ db' = db
          /\ ret'.out = IF s \in DOMAIN db THEN Some(db[s]) ELSE None
    /\ (ret'.op = "has_student") =>
          /\ db' = db
          /\ ret'.out = (s \in DOMAIN db)

C23_RegistryRefinesMap == [][RegistryStepAgrees]_vars

\* No two students' scores are one dict object.
NoSharedDict == \A x \in DOMAIN refs, y \in DOMAIN refs : refs[x] = refs[y] => x = y

\* While every student was added with a dict of their own, the registry
\* agrees with the reference map.
C23_AgreesWithoutSharedDict == [][NoSharedDict => RegistryStepAgrees]_vars

\* An update of one student has changed another, added with the same dict.
C23_SharedDictUpdated ==
    /\ ret.op = "update_student_scores"
    /\ ret.out
    /\ \E x \in DOMAIN db :
         /\ x # ret.student_id
         /\ refs[x] = refs[ret.student_id]
         /\ db[x] = db[ret.student_id]
         /\ \E t \in DOMAIN ret.scores : db[x][t] = ret.scores[t]

\* An update of one score type on a student who keeps another.
C23_Witness ==
    /\ ret.op = "update_student_scores"
    /\ ret.out
    /\ DOMAIN ret.scores = {"gpa"}
    /\ DOMAIN db[ret.student_id] = {"gpa", "sat"}

\* A failing update on an empty registry.
C23_WitnessFailing ==
    /\ ret.op = "update_student_scores"
    /\ ~ret.out
    /\ db = EmptyDict

----------------------------------------------------------------------------
(* Holder: the store as observed *)

\* C24: the store observed through get_credential and list_credentials is
\* the set of successfully stored bundles, one per credential_id.  After
\* store_credential returns True, get_credential of its id returns that
\* bundle and list_credentials holds it; an id never stored gives None; and
\* a CredentialHolder constructed again on the same directory observes the
\* same store.
C24_StoreObservedFaithfully ==
    /\ [](get_credential(credentials, 2) = None)
    /\ [][ /\ (ret'.op = "store_credential" /\ ret'.out) =>
                /\ get_credential(credentials',
                                  ret'.credential_data.credential.credential_id)
                       = Some(ret'.credential_data)
                /\ ret'.credential_data \in list_credentials(credentials')
           /\ (ret'.op = "load_credentials") => credentials' = credentials ]_vars

\* A holder constructed again no longer has a credential it stored.
C24_LostOnReload ==
    /\ ret.op = "load_credentials"
    /\ 0 \in DOMAIN credFiles
    /\ 0 \notin DOMAIN credentials

----------------------------------------------------------------------------
(* Holder: the scaled integers *)

\* The score of the credential the last generate_proof call was made for.
RetScore == credentials[ret.credential_id].credential.score_value

\* floor(v/100 * f) and whether v/100 * f is an integer, in exact arithmetic.
Floor(v, f) == (v * f) \div 100
ExactInteger(v, f) == (v * f) % 100 = 0

\* C25: the integers generate_proof passes to the backend are
\* floor(score_value * scale_factor) and floor(threshold * scale_factor),
\* for every stored score, every threshold, negative ones included, and
\* every positive scale factor.
C25_InputsAreFloor ==
    (IsGenerateProof /\ ret.input_data # None) =>
        /\ ret.input_data[1].score = Floor(RetScore, ret.scale_factor)
        /\ ret.input_data[1].threshold = Floor(ret.threshold, ret.scale_factor)

\* A negative threshold is truncated toward zero: -3.25 at scale 1 is
\* passed as -3, not as floor(-3.25) = -4.
C25_NegativeTruncatedTowardZero ==
    /\ IsGenerateProof
    /\ ret.input_data # None
    /\ ret.threshold = -325
    /\ ret.scale_factor = 1
    /\ ret.input_data = Some([score |-> ScaleToInt(RetScore, 1), threshold |-> -3])

\* C26: scale consistency.  When score_value * F and threshold * F are exact
\* integers, the scaled comparison score_int >= threshold_int of the
\* integers generate_proof computes holds if and only if
\* score_value >= threshold.
C26_ScaleConsistency ==
    (/\ IsGenerateProof
     /\ ret.input_data # None
     /\ ExactInteger(RetScore, ret.scale_factor)
     /\ ExactInteger(ret.threshold, ret.scale_factor)) =>
        ((ret.input_data[1].score >= ret.input_data[1].threshold)
            <=> (RetScore >= ret.threshold))

\* Score 2.29 against threshold 2.3 at scale 100: both become 229, and a
\* bundle is returned.
C26_EqualAfterScaling ==
    /\ IsGenerateProof
    /\ ret.input_data # None
    /\ RetScore = 229
    /\ ret.threshold = 230
    /\ ret.scale_factor = 100
    /\ ret.input_data = Some([score |-> 229, threshold |-> 229])
    /\ ret.out # None

\* C27: a bundle certifies that the score meets the threshold.  Whenever
\* the scaled inputs generate_proof produces satisfy score_int >=
\* threshold_int, the credential's score_value is at least the threshold T.
C27_BundleCertifiesThreshold ==
    (/\ IsGenerateProof
     /\ ret.input_data # None
     /\ ret.input_data[1].score >= ret.input_data[1].threshold) =>
        RetScore >= ret.threshold

\* Score 3.25 against threshold 3.5 at scale 1: both become 3, the bundle is
\* returned, and the backend accepts it for 3.5.
C27_BelowThresholdCertified ==
    /\ IsGenerateProof
    /\ ret.input_data # None
    /\ RetScore = 325
    /\ ret.threshold = 350
    /\ ret.scale_factor = 1
    /\ ret.out # None
    /\ verify_proof(TRUE, FALSE, ret.out[1], "verification_key.json",
                    Some(350)).result.valid

----------------------------------------------------------------------------
(* Holder: persisted proof bundles *)

\* C28: proofs for several thresholds are independent.  After
\* generate_proof(X, T1) succeeded and its bundle was persisted, a later
\* generate_proof(X, T2) with T2 # T1, successful or failed, leaves the
\* persisted T1 bundle as it was (and the returned T1 bundle is a value no
\* later call changes).
C28_EarlierBundleKept ==
    [][ (ret'.op = "generate_proof") =>
          \A e \in proofLog :
             (/\ e.bundle.metadata.credential_id = ret'.credential_id
              /\ e.threshold # ret'.threshold
              /\ Get(proofs, ret'.credential_id) = Some(e.bundle))
             => /\ Get(proofs', ret'.credential_id) = Some(e.bundle)
                /\ e \in proofLog' ]_vars

\* The bundle for 3.0 was returned, and the file now holds the one for 3.5.
C28_Overwritten ==
    /\ IsGenerateProof
    /\ ret.out # None
    /\ ret.threshold = 350
    /\ proofs[ret.credential_id] = ret.out[1]
    /\ \E e \in proofLog :
         /\ e.bundle.metadata.credential_id = ret.credential_id
         /\ e.threshold = 300
         /\ e.scale_factor = ret.scale_factor

----------------------------------------------------------------------------
(* Registry: writers of different subjects *)

\* C29: registry writes for different subjects are independent.  When a
\* writer (one of several CredentialDatabase instances on the same db_path)
\* commits a write for one subject, every other subject's committed entry is
\* still in the persisted registry, unchanged.
C29_OtherSubjectsKept ==
    [][ (/\ ret'.op \in {"add_student", "update_student_scores"}
         /\ ret'.out = TRUE)
        => \A x \in DOMAIN db :
              x # ret'.student_id => Get(db', x) = Get(db, x) ]_vars

\* Both instances have added their own subject, and the file holds one.
C29_WriteLost ==
    /\ ret.op = "add_student"
    /\ ret.out = TRUE
    /\ \E w \in DOMAIN instances :
         /\ w # ret.instance
         /\ \E x \in DOMAIN instances[w].students : x \notin DOMAIN db

----------------------------------------------------------------------------
(* Issuer: the time of issuance *)

\* C30: issue_credential captures the current timestamp: issued_at of a
\* credential equals the clock time at which the call ran.
C30_IssuedAtIsClockTime ==
    [][ (ret'.op = "issue_credential" /\ ret'.out # None)
        => ret'.out[1].credential.issued_at = now ]_vars

\* A credential issued after the clock has advanced carries the key file's
\* time.
C30_StampIsKeyFileTime ==
    /\ IsIssueCredential
    /\ ret.out # None
    /\ now = MaxClock
    /\ ret.out[1].credential.issued_at = KeyFileMtime(ret.name)

====
